---------------------------- MODULE Spec2Model ----------------------------
(***************************************************************************)
(* Model of the request handlers of framework/sendemail.py (outbound mail  *)
(* task, bounce webhook, inbound mail webhook) and api/stars_api.py (star  *)
(* toggle).  Python strings are sequences of one-character strings, so     *)
(* that split('@'), lower(), %-formatting and unquote() are computed.      *)
(***************************************************************************)
EXTENDS Integers, Sequences, FiniteSets

VARIABLES
  cfg,      \* the settings module (read-only, process wide)
  pc,       \* position of the sequential handler being run
  req,      \* the request being handled
  loc,      \* the handler's local variables
  resp,     \* the handler's outcome: return value, flask.abort or exception
  trace,    \* calls the handler has made so far, in order
  outbox,   \* messages handed to the mail transport (message.send)
  queue,    \* tasks enqueued with cloud_tasks_helpers.enqueue_task
  stars,    \* FeatureStar records: set of <<email, feature_id>>
  bpc,      \* position of each concurrent bounce ingestion
  bloc,     \* local variables of each concurrent bounce ingestion
  prefs,    \* the persisted UserPref records, by email address
  putLog    \* every record value ever written with user_pref.put()

vars == <<cfg, pc, req, loc, resp, trace, outbox, queue, stars,
          bpc, bloc, prefs, putLog>>

-----------------------------------------------------------------------------
(* Bounds *)

MaxAddrLen == 3     \* longest address given to format_staging_email
MaxTo == 2          \* longest 'to' list of an outbound task
MaxCc == 1          \* longest 'cc' list of an outbound task
MaxParts == 2       \* most MIME parts of an inbound message
NumFeatures == 2    \* features 1..NumFeatures exist
NumProcs == 2       \* concurrent bounce ingestions
MaxBounces == 3     \* bounce notifications delivered in one run

-----------------------------------------------------------------------------
(* Python strings and string functions *)

\* All sequences over S of length at most n.
SeqsUpTo(S, n) == UNION {[1..k -> S] : k \in 0..n}

\* Indices of '@' in s.
AtIndices(s) == {i \in 1..Len(s) : s[i] = "@"}

FirstAt(s) == CHOOSE i \in AtIndices(s) : \A j \in AtIndices(s) : i <= j

\* str.split('@'): the list of the parts between the separators.
RECURSIVE Split(_)
Split(s) ==
  IF AtIndices(s) = {} THEN <<s>>
  ELSE <<SubSeq(s, 1, FirstAt(s) - 1)>>
         \o Split(SubSeq(s, FirstAt(s) + 1, Len(s)))

\* A template is a sequence of tokens: the placeholders %(user)s and
\* %(domain)s, or literal characters.  template % {'user': .., 'domain': ..}
RECURSIVE PercentFormat(_, _, _)
PercentFormat(tpl, user, domain) ==
  IF tpl = <<>> THEN <<>>
  ELSE (CASE Head(tpl) = "%(user)s" -> user
          [] Head(tpl) = "%(domain)s" -> domain
          [] OTHER -> <<Head(tpl)>>)
       \o PercentFormat(Tail(tpl), user, domain)

\* str.lower() on the letters the model uses.
LowerChar(c) ==
  CASE c = "B" -> "b" [] c = "U" -> "u" [] c = "L" -> "l" [] c = "K" -> "k"
    [] c = "J" -> "j" [] c = "N" -> "n"
    [] OTHER -> c

Lower(s) == [i \in 1..Len(s) |-> LowerChar(s[i])]

\* The character a %xx escape stands for, for the hex digits the model uses.
HexDigits == {"0", "4"}

HexDecode(h1, h2) ==
  CASE h1 = "4" /\ h2 = "0" -> "@"
    [] h1 = "4" /\ h2 = "4" -> "D"
    [] h1 = "0" /\ h2 = "4" -> "EOT"
    [] h1 = "0" /\ h2 = "0" -> "NUL"

\* urllib.parse.unquote: %xx escapes are replaced, anything else is kept.
RECURSIVE Unquote(_)
Unquote(s) ==
  IF s = <<>> THEN <<>>
  ELSE IF s[1] = "%" /\ Len(s) >= 3 /\ s[2] \in HexDigits /\ s[3] \in HexDigits
       THEN <<HexDecode(s[2], s[3])>> \o Unquote(SubSeq(s, 4, Len(s)))
       ELSE <<s[1]>> \o Unquote(Tail(s))

-----------------------------------------------------------------------------
(* settings *)

\* The staging templates; an unset SEND_ALL_EMAIL_TO (None) is the empty one.
TplUnset == <<>>
TplStaging == <<"%(user)s", "+", "s", "@", "%(domain)s">>
TplLogging == <<"z", "+", "%(user)s", "+", "%(domain)s", "@", "g">>
TplCc == <<"y", "+", "%(user)s", "+", "%(domain)s", "@", "g">>

ExemptAddr == <<"l", "@", "g">>
InboundPlain == <<"i", "@", "x">>
InboundQuoted == <<"i", "%", "4", "0", "x">>

Settings(unit, dev, sendAll, sendEmail, inbound) ==
  [UNIT_TEST_MODE |-> unit, DEV_MODE |-> dev,
   SEND_ALL_EMAIL_TO |-> sendAll, CC_ALL_EMAIL_TO |-> TplCc,
   REVIEW_COMMENT_MAILING_LIST |-> <<ExemptAddr>>,
   SEND_EMAIL |-> sendEmail, INBOUND_EMAIL_ADDR |-> inbound]

Nothing == <<>>
NoResp == [kind |-> "none"]

-----------------------------------------------------------------------------
(* format_staging_email *)

\* What the function hands back: a value, or the ValueError of the unpacking.
Returned(v) == [raised |-> FALSE, value |-> v]
ValueError == [raised |-> TRUE, value |-> <<>>]

format_staging_email(settings, addr) ==
  IF settings.SEND_ALL_EMAIL_TO = <<>> THEN Returned(<<>>)
  ELSE IF Len(Split(addr)) # 2 THEN ValueError
  ELSE Returned(PercentFormat(settings.SEND_ALL_EMAIL_TO,
                              Split(addr)[1], Split(addr)[2]))

AddrAlphabet == {"a", "b", "@"}

InitFmt ==
  /\ cfg \in {Settings(FALSE, FALSE, t, TRUE, InboundPlain) :
                t \in {TplUnset, TplStaging, TplLogging}}
  /\ req \in [addr : SeqsUpTo(AddrAlphabet, MaxAddrLen)]
  /\ pc = "start"
  /\ loc = Nothing
  /\ resp = NoResp
  /\ trace = <<>>
  /\ outbox = <<>>
  /\ queue = <<>>
  /\ stars = {}
  /\ bpc = Nothing
  /\ bloc = Nothing
  /\ prefs = Nothing
  /\ putLog = {}

FormatStagingEmail ==
  /\ pc = "start"
  /\ resp' = [kind |-> "fmt", out |-> format_staging_email(cfg, req.addr)]
  /\ pc' = "done"
  /\ UNCHANGED <<cfg, req, loc, trace, outbox, queue, stars,
                 bpc, bloc, prefs, putLog>>

NextFmt == FormatStagingEmail

SpecFmt == InitFmt /\ [][NextFmt]_vars

\* An address a@b: exactly one '@', between a non-empty user and domain.
IsUserAtDomain(addr) ==
  /\ Cardinality(AtIndices(addr)) = 1
  /\ addr[1] # "@" /\ addr[Len(addr)] # "@"

\* C1: for every address a@b, format_staging_email returns a@b unchanged when
\* SEND_ALL_EMAIL_TO is unset, and the to-template with user=a and domain=b
\* substituted when it is set.
C1_FormatStagingEmail ==
  (pc = "done" /\ IsUserAtDomain(req.addr)) =>
     /\ ~resp.out.raised
     /\ resp.out.value =
          IF cfg.SEND_ALL_EMAIL_TO = TplUnset THEN req.addr
          ELSE PercentFormat(cfg.SEND_ALL_EMAIL_TO,
                             SubSeq(req.addr, 1, FirstAt(req.addr) - 1),
                             SubSeq(req.addr, FirstAt(req.addr) + 1,
                                    Len(req.addr)))

-----------------------------------------------------------------------------
(* JSON values of a task payload: absent/None, a string, or a list of       *)
(* strings.  Every value carries both fields so that values compare.        *)

JNone == [kind |-> "none", s |-> <<>>, l |-> <<>>]
JStr(x) == [kind |-> "str", s |-> x, l |-> <<>>]
JList(xs) == [kind |-> "list", s |-> <<>>, l |-> xs]

\* Python truthiness: None, '' and [] are false.
Truthy(v) == (v.kind = "str" /\ v.s # <<>>) \/ (v.kind = "list" /\ v.l # <<>>)

\* Outcomes of a handler.
Abort(status, text, name) ==
  [kind |-> "abort", status |-> status, message |-> text, param |-> name]
Return(text) ==
  [kind |-> "return", status |-> 200, message |-> text, param |-> ""]
Raise(error) ==
  [kind |-> "raise", status |-> 500, message |-> error, param |-> ""]

Call(name, arg) == [call |-> name, arg |-> arg]

-----------------------------------------------------------------------------
(* handle_outbound_mail_task *)

\* require_task_header with the DEV_MODE bypass left out.
require_task_header_no_dev(settings, request) ==
  IF settings.UNIT_TEST_MODE THEN TRUE
  ELSE request.hasHeader

\* TRUE when the request may proceed, FALSE when it is aborted with 403.
require_task_header(settings, request) ==
  IF settings.UNIT_TEST_MODE \/ settings.DEV_MODE THEN TRUE
  ELSE request.hasHeader

\* get_param that rejects only an absent parameter, not an empty one.
get_param_none_only(request, name, required) ==
  IF required /\ request.json[name].kind = "none"
  THEN [aborted |-> TRUE, val |-> JNone]
  ELSE [aborted |-> FALSE, val |-> request.json[name]]

\* The value of the parameter, or the 400 abort.
get_param(request, name, required) ==
  IF required /\ ~Truthy(request.json[name])
  THEN [aborted |-> TRUE, val |-> JNone]
  ELSE [aborted |-> FALSE, val |-> request.json[name]]

\* The parameters in the order the handler reads them.
ParamOrder ==
  << [name |-> "to", required |-> TRUE],
     [name |-> "cc", required |-> FALSE],
     [name |-> "from_user", required |-> FALSE],
     [name |-> "subject", required |-> TRUE],
     [name |-> "html", required |-> TRUE],
     [name |-> "references", required |-> FALSE],
     [name |-> "reply_to", required |-> FALSE] >>

ParamAborts(request, i) ==
  get_param(request, ParamOrder[i].name, ParamOrder[i].required).aborted

\* Index of the first get_param call that aborts, 0 when none does.
FirstAbort(request) ==
  IF \E i \in 1..Len(ParamOrder) : ParamAborts(request, i)
  THEN CHOOSE i \in 1..Len(ParamOrder) :
         /\ ParamAborts(request, i)
         /\ \A j \in 1..(i - 1) : ~ParamAborts(request, j)
  ELSE 0

\* isinstance(x, str): x = [x]
ToList(v) == IF v.kind = "str" THEN JList(<<v.s>>) ELSE v

\* cc_user, cc_domain = cc_addr.split('@'); CC_ALL_EMAIL_TO % {...}
format_cc(settings, cc_addr) ==
  IF Len(Split(cc_addr)) # 2 THEN ValueError
  ELSE Returned(PercentFormat(settings.CC_ALL_EMAIL_TO,
                              Split(cc_addr)[1], Split(cc_addr)[2]))

\* The guard without the exemption of the mailing list.
StagingApplies_no_exempt(settings, to) ==
  settings.SEND_ALL_EMAIL_TO # <<>>

\* The guard of the staging rewrite, on the normalised 'to'.
StagingApplies(settings, to) ==
  settings.SEND_ALL_EMAIL_TO # <<>>
    /\ to.l # settings.REVIEW_COMMENT_MAILING_LIST

\* A lookup of the settings module: the application id.
APP_ID == "APP_ID"

Sender(from_user) ==
  IF Truthy(from_user)
  THEN from_user.s \o <<" via Chromestatus <admin+">> \o from_user.s
         \o <<"@", APP_ID, ".appspotmail.com>">>
  ELSE <<"Chromestatus <admin@", APP_ID, ".appspotmail.com>">>

\* mail.EmailMessage.check_initialized: the required fields are set.
check_initialized(message) ==
  message.sender # <<>> /\ message.to # <<>> /\ Truthy(message.subject)
    /\ Truthy(message.body)

OutToPool == {<<"a", "@", "b">>, ExemptAddr, <<"a", "b">>}
OutCcPool == {<<"c", "@", "d">>, <<"c", "d">>}

OutToValues ==
  {JNone, JStr(<<>>)} \cup {JStr(a) : a \in OutToPool}
    \cup {JList(l) : l \in SeqsUpTo(OutToPool, MaxTo)}

OutCcValues ==
  {JNone} \cup {JStr(a) : a \in OutCcPool}
    \cup {JList(l) : l \in SeqsUpTo(OutCcPool, MaxCc)}

OutOptional ==
  { [from_user |-> JNone, references |-> JNone, reply_to |-> JNone],
    [from_user |-> JStr(<<"f">>), references |-> JNone, reply_to |-> JNone],
    [from_user |-> JNone, references |-> JStr(<<"m">>),
     reply_to |-> JStr(<<"r", "@", "x">>)] }

OutJson ==
  { [to |-> t, cc |-> c, from_user |-> o.from_user, subject |-> s, html |-> h,
     references |-> o.references, reply_to |-> o.reply_to] :
      t \in OutToValues, c \in OutCcValues, o \in OutOptional,
      s \in {JNone, JStr(<<>>), JStr(<<"s">>)},
      h \in {JNone, JStr(<<"h">>)} }

OutSettings ==
  { Settings(m[1], m[2], t, e, InboundPlain) :
      m \in {<<FALSE, FALSE>>, <<TRUE, FALSE>>, <<FALSE, TRUE>>},
      t \in {TplUnset, TplStaging}, e \in BOOLEAN }

InitOut ==
  /\ cfg \in OutSettings
  /\ req \in [hasHeader : BOOLEAN, json : OutJson]
  /\ pc = "start"
  /\ loc = Nothing
  /\ resp = NoResp
  /\ trace = <<>>
  /\ outbox = <<>>
  /\ queue = <<>>
  /\ stars = {}
  /\ bpc = Nothing
  /\ bloc = Nothing
  /\ prefs = Nothing
  /\ putLog = {}

\* line 61
OutRequireTaskHeader ==
  /\ pc = "start"
  /\ trace' = Append(trace, Call("require_task_header", ""))
  /\ IF require_task_header(cfg, req)
     THEN pc' = "params" /\ resp' = resp
     ELSE /\ pc' = "aborted"
          /\ resp' = Abort(403, "Lacking X-AppEngine-QueueName header", "")
  /\ UNCHANGED <<cfg, req, loc, outbox, queue, stars, bpc, bloc, prefs, putLog>>

\* lines 62-71
OutGetParams ==
  /\ pc = "params"
  /\ LET k == FirstAbort(req)
         n == IF k = 0 THEN Len(ParamOrder) ELSE k
     IN /\ trace' = trace \o <<Call("get_json", "")>>
                      \o [i \in 1..n |-> Call("get_param", ParamOrder[i].name)]
        /\ IF k # 0
           THEN /\ pc' = "aborted"
                /\ resp' = Abort(400, "Missing parameter", ParamOrder[k].name)
                /\ loc' = loc
           ELSE /\ pc' = "rewrite"
                /\ resp' = resp
                /\ loc' = [p \in {ParamOrder[i].name : i \in 1..n} |->
                             get_param(req, p, FALSE).val]
  /\ UNCHANGED <<cfg, req, outbox, queue, stars, bpc, bloc, prefs, putLog>>

\* lines 73-87
OutRewrite ==
  /\ pc = "rewrite"
  /\ LET to == ToList(loc.to)
         cc == ToList(loc.cc)
         newTo == [i \in 1..Len(to.l) |-> format_staging_email(cfg, to.l[i])]
         newCc == [i \in 1..Len(cc.l) |-> format_cc(cfg, cc.l[i])]
         toFails == \E i \in 1..Len(to.l) : newTo[i].raised
         ccFails == Truthy(cc) /\ \E i \in 1..Len(cc.l) : newCc[i].raised
     IN IF ~StagingApplies(cfg, to)
        THEN /\ loc' = [loc EXCEPT !.to = to, !.cc = cc]
             /\ pc' = "build"
             /\ resp' = resp
        ELSE IF toFails \/ ccFails
        THEN /\ loc' = loc
             /\ pc' = "raised"
             /\ resp' = Raise("ValueError")
        ELSE /\ loc' = [loc EXCEPT
                  !.to = JList([i \in 1..Len(to.l) |-> newTo[i].value]),
                  !.cc = IF Truthy(cc)
                         THEN JList([i \in 1..Len(cc.l) |-> newCc[i].value])
                         ELSE cc]
             /\ pc' = "build"
             /\ resp' = resp
  /\ UNCHANGED <<cfg, req, trace, outbox, queue, stars,
                 bpc, bloc, prefs, putLog>>

\* lines 89-106
BuiltMessage(l) ==
  [sender |-> Sender(l.from_user), to |-> l.to.l, subject |-> l.subject,
   body |-> l.html,
   reply_to |-> IF Truthy(l.reply_to) THEN l.reply_to ELSE JNone,
   cc |-> IF Truthy(l.cc) THEN l.cc.l ELSE <<>>,
   References |-> IF Truthy(l.references) THEN l.references ELSE JNone,
   InReplyTo |-> IF Truthy(l.references) THEN l.references ELSE JNone]

OutBuild ==
  /\ pc = "build"
  /\ trace' = trace \o <<Call("EmailMessage", ""), Call("check_initialized", "")>>
  /\ IF check_initialized(BuiltMessage(loc))
     THEN /\ loc' = [message |-> BuiltMessage(loc)]
          /\ pc' = "send"
          /\ resp' = resp
     ELSE /\ loc' = loc
          /\ pc' = "raised"
          /\ resp' = Raise("InvalidEmailError")
  /\ UNCHANGED <<cfg, req, outbox, queue, stars, bpc, bloc, prefs, putLog>>

\* lines 119-125; the transport either accepts the message or raises.
OutSend ==
  /\ pc = "send"
  /\ IF cfg.SEND_EMAIL
     THEN /\ trace' = Append(trace, Call("send", ""))
          /\ \E accepted \in BOOLEAN :
               IF accepted
               THEN /\ outbox' = Append(outbox, loc.message)
                    /\ pc' = "done"
                    /\ resp' = Return("Done")
               ELSE /\ outbox' = outbox
                    /\ pc' = "raised"
                    /\ resp' = Raise("TransportError")
     ELSE /\ trace' = trace
          /\ outbox' = outbox
          /\ pc' = "done"
          /\ resp' = Return("Done")
  /\ UNCHANGED <<cfg, req, loc, queue, stars, bpc, bloc, prefs, putLog>>

NextOut ==
  \/ OutRequireTaskHeader
  \/ OutGetParams
  \/ OutRewrite
  \/ OutBuild
  \/ OutSend

SpecOut == InitOut /\ [][NextOut]_vars

Finished == pc \in {"done", "aborted", "raised"}

Called(name) == \E i \in 1..Len(trace) : trace[i].call = name

RequiredParams == {"to", "subject", "html"}
MissingParams(request) == {p \in RequiredParams : ~Truthy(request.json[p])}

\* C2: a task accepted by the header check in which a required field (to,
\* subject or html) is missing or empty is aborted with 400 naming the first
\* such field, and no task with a missing field ever gets past the reading of
\* the parameters: no message is built and message.send is never called.
C2_MissingParam ==
  MissingParams(req) # {} =>
    /\ ~Called("send") /\ ~Called("EmailMessage") /\ outbox = <<>>
    /\ pc \in {"start", "params", "aborted"}
    /\ Finished => resp.kind = "abort"
    /\ (Finished /\ require_task_header(cfg, req)) =>
         /\ resp.status = 400
         /\ resp.param \in MissingParams(req)
         /\ resp.param = (IF ~Truthy(req.json.to) THEN "to"
                          ELSE IF ~Truthy(req.json.subject) THEN "subject"
                          ELSE "html")

C2_Witness ==
  /\ pc = "aborted" /\ resp.status = 400 /\ resp.param = "html"
  /\ Truthy(req.json.to) /\ Truthy(req.json.subject) /\ req.json.html = JNone
  /\ ~Called("send")

\* C3: outside unit-test and dev mode a request without the queue header is
\* aborted with 403 before the body or any field is read and nothing is built
\* or sent; in unit-test or dev mode no request is aborted with 403.
C3_TaskHeader ==
  /\ (~cfg.UNIT_TEST_MODE /\ ~cfg.DEV_MODE /\ ~req.hasHeader /\ pc # "start") =>
        /\ pc = "aborted" /\ resp.kind = "abort" /\ resp.status = 403
        /\ ~Called("get_json") /\ ~Called("get_param")
        /\ ~Called("EmailMessage") /\ ~Called("send")
        /\ outbox = <<>>
  /\ ((cfg.UNIT_TEST_MODE \/ cfg.DEV_MODE) /\ pc # "start") =>
        /\ ~(resp.kind = "abort" /\ resp.status = 403)
        /\ pc # "params" => Called("get_json")

C3_Witness ==
  /\ pc = "aborted" /\ resp.status = 403 /\ ~req.hasHeader
  /\ MissingParams(req) # {} /\ trace = <<Call("require_task_header", "")>>

\* The address the template gives for a@b, from the position of its '@'.
Staged(tpl, addr) ==
  PercentFormat(tpl, SubSeq(addr, 1, FirstAt(addr) - 1),
                SubSeq(addr, FirstAt(addr) + 1, Len(addr)))

\* The list form of a request's 'to' or 'cc'.
Listed(v) == IF v.kind = "str" THEN <<v.s>> ELSE v.l

IsExempt(request) ==
  request.json.to \in {JStr(ExemptAddr), JList(<<ExemptAddr>>)}

\* C9: with SEND_ALL_EMAIL_TO set, the message built (and any message sent)
\* has every to address rewritten through the to-template and every cc
\* address through the cc-template exactly when the destination is not the
\* exempt mailing list; otherwise to and cc are those of the task.
C9_StagingRewrite ==
  pc \in {"send", "done"} =>
    LET to0 == Listed(req.json.to)
        cc0 == Listed(req.json.cc)
        rewrite == cfg.SEND_ALL_EMAIL_TO # TplUnset /\ ~IsExempt(req)
        expTo == IF rewrite
                 THEN [i \in 1..Len(to0) |-> Staged(cfg.SEND_ALL_EMAIL_TO, to0[i])]
                 ELSE to0
        expCc == IF rewrite
                 THEN [i \in 1..Len(cc0) |-> Staged(cfg.CC_ALL_EMAIL_TO, cc0[i])]
                 ELSE cc0
    IN /\ loc.message.to = expTo
       /\ loc.message.cc = expCc
       /\ \A i \in 1..Len(outbox) : outbox[i].to = expTo /\ outbox[i].cc = expCc
       /\ rewrite => \A i \in 1..Len(to0) : IsUserAtDomain(to0[i])

C9_Witness ==
  /\ pc = "done" /\ cfg.SEND_ALL_EMAIL_TO = TplStaging
  /\ req.json.to = JList(<<<<"a", "@", "b">>, ExemptAddr>>)
  /\ req.json.cc = JStr(<<"c", "@", "d">>)
  /\ Len(outbox) = 1
  /\ outbox[1].to = << <<"a", "+", "s", "@", "b">>, <<"l", "+", "s", "@", "g">> >>
  /\ outbox[1].cc = << <<"y", "+", "c", "+", "d", "@", "g">> >>

-----------------------------------------------------------------------------
(* handle_incoming_mail *)

MAX_BODY_SIZE == 20 * 1024 * 1024

\* The size test against a ceiling of 32 MiB.
TooBig_32mib(request) == request.content_length > 32 * 1024 * 1024

\* line 198
TooBig(request) == request.content_length > MAX_BODY_SIZE

Bulk == <<"b", "u", "l", "k">>
Junk == <<"j", "u", "n", "k">>

\* The precedence test without lower().
IsAutoresponder_case_sensitive(precedence) == precedence \in {Bulk, Junk}

\* line 205
IsAutoresponder(precedence) == Lower(precedence) \in {Bulk, Junk}

\* A header value as utils.getaddresses gives it: (friendly, addr) pairs.
extract_addrs(header_value) ==
  [i \in 1..Len(header_value) |-> header_value[i].addr]

\* lines 208-209: x-original-from or, when that gives no address, from.
FromAddrs(msg) ==
  IF extract_addrs(msg.x_original_from) # <<>>
  THEN extract_addrs(msg.x_original_from)
  ELSE extract_addrs(msg.from)

\* lines 218-224: the first text/plain part in walk order, 0 when none.
PlainParts(msg) == {i \in 1..Len(msg.parts) : msg.parts[i].ctype = "text/plain"}

FirstPlain(msg) ==
  IF PlainParts(msg) = {} THEN 0
  ELSE CHOOSE i \in PlainParts(msg) : \A j \in PlainParts(msg) : i <= j

\* The task without the unquote of the address.
TaskDict_no_unquote(addr, msg) ==
  [to_addr |-> addr,
   from_addr |-> FromAddrs(msg)[1],
   subject |-> msg.subject,
   in_reply_to |-> msg.in_reply_to,
   body |-> IF FirstPlain(msg) = 0 THEN <<>>
            ELSE msg.parts[FirstPlain(msg)].payload]

\* lines 226-234
TaskDict(addr, msg) ==
  [to_addr |-> Unquote(addr),
   from_addr |-> FromAddrs(msg)[1],
   subject |-> msg.subject,
   in_reply_to |-> msg.in_reply_to,
   body |-> IF FirstPlain(msg) = 0 THEN <<>>
            ELSE msg.parts[FirstPlain(msg)].payload]

InPrecedences ==
  {<<>>, Bulk, Junk, <<"B", "u", "l", "k">>, <<"J", "U", "N", "K">>,
   <<"l", "i", "s", "t">>}

InOriginalFrom == {<<>>, <<[friendly |-> "O", addr |-> <<"o", "@", "x">>]>>}

InFrom ==
  {<<>>, <<[friendly |-> "F", addr |-> <<"f", "@", "x">>]>>,
   <<[friendly |-> "", addr |-> <<>>]>>}

\* A MIME part: content type, payload, and whether the payload decodes as
\* UTF-8.
InPartPool ==
  {[ctype |-> "text/html", payload |-> <<"H">>, utf8 |-> TRUE],
   [ctype |-> "text/plain", payload |-> <<"p">>, utf8 |-> TRUE],
   [ctype |-> "text/plain", payload |-> <<"q">>, utf8 |-> FALSE]}

InMessages ==
  [precedence : InPrecedences, x_original_from : InOriginalFrom, from : InFrom,
   in_reply_to : {<<>>, <<"m">>}, subject : {<<>>, <<"s">>},
   parts : SeqsUpTo(InPartPool, MaxParts)]

InAddrs == {InboundPlain, InboundQuoted, <<"o", "@", "x">>}

InitIn ==
  /\ cfg \in {Settings(FALSE, FALSE, TplUnset, TRUE, a) :
                a \in {InboundPlain, InboundQuoted}}
  /\ req \in [addr : InAddrs,
              content_length : {0, MAX_BODY_SIZE, MAX_BODY_SIZE + 1},
              data : InMessages]
  /\ pc = "start"
  /\ loc = Nothing
  /\ resp = NoResp
  /\ trace = <<>>
  /\ outbox = <<>>
  /\ queue = <<>>
  /\ stars = {}
  /\ bpc = Nothing
  /\ bloc = Nothing
  /\ prefs = Nothing
  /\ putLog = {}

\* lines 194-196
InCheckAddr ==
  /\ pc = "start"
  /\ trace' = Append(trace, Call("check", "address"))
  /\ IF req.addr # cfg.INBOUND_EMAIL_ADDR
     THEN pc' = "done" /\ resp' = Return("Wrong address")
     ELSE pc' = "size" /\ resp' = resp
  /\ UNCHANGED <<cfg, req, loc, outbox, queue, stars, bpc, bloc, prefs, putLog>>

\* lines 198-200
InCheckSize ==
  /\ pc = "size"
  /\ trace' = Append(trace, Call("check", "size"))
  /\ IF TooBig(req)
     THEN pc' = "done" /\ resp' = Return("Too big")
     ELSE pc' = "parse" /\ resp' = resp
  /\ UNCHANGED <<cfg, req, loc, outbox, queue, stars, bpc, bloc, prefs, putLog>>

\* line 202 and lines 176-180
get_incoming_message ==
  /\ pc = "parse"
  /\ trace' = Append(trace, Call("get_incoming_message", ""))
  /\ loc' = [msg |-> req.data]
  /\ pc' = "precedence"
  /\ UNCHANGED <<cfg, req, resp, outbox, queue, stars, bpc, bloc, prefs, putLog>>

\* lines 204-207
InCheckPrecedence ==
  /\ pc = "precedence"
  /\ trace' = Append(trace, Call("check", "precedence"))
  /\ IF IsAutoresponder(loc.msg.precedence)
     THEN pc' = "done" /\ resp' = Return("Wrong precedence")
     ELSE pc' = "from" /\ resp' = resp
  /\ UNCHANGED <<cfg, req, loc, outbox, queue, stars, bpc, bloc, prefs, putLog>>

\* lines 208-214
InCheckFrom ==
  /\ pc = "from"
  /\ trace' = Append(trace, Call("check", "from"))
  /\ IF FromAddrs(loc.msg) # <<>>
     THEN pc' = "task" /\ resp' = resp
     ELSE pc' = "done" /\ resp' = Return("Missing From")
  /\ UNCHANGED <<cfg, req, loc, outbox, queue, stars, bpc, bloc, prefs, putLog>>

\* lines 215-235; body.decode('utf-8') raises on a payload that is not UTF-8.
InBuildTask ==
  /\ pc = "task"
  /\ IF FirstPlain(loc.msg) # 0 /\ ~loc.msg.parts[FirstPlain(loc.msg)].utf8
     THEN /\ pc' = "raised"
          /\ resp' = Raise("UnicodeDecodeError")
          /\ loc' = loc
     ELSE /\ pc' = "enqueue"
          /\ resp' = resp
          /\ loc' = [msg |-> loc.msg, task_dict |-> TaskDict(req.addr, loc.msg)]
  /\ UNCHANGED <<cfg, req, trace, outbox, queue, stars,
                 bpc, bloc, prefs, putLog>>

\* lines 236-239; enqueue_task either enqueues the task or raises.
InEnqueue ==
  /\ pc = "enqueue"
  /\ trace' = Append(trace, Call("enqueue_task", "/tasks/detect-intent"))
  /\ \E enqueued \in BOOLEAN :
       IF enqueued
       THEN /\ queue' = Append(queue, [path |-> "/tasks/detect-intent",
                                       task |-> loc.task_dict])
            /\ pc' = "done"
            /\ resp' = Return("Done")
       ELSE /\ queue' = queue
            /\ pc' = "raised"
            /\ resp' = Raise("EnqueueError")
  /\ UNCHANGED <<cfg, req, loc, outbox, stars, bpc, bloc, prefs, putLog>>

NextIn ==
  \/ InCheckAddr
  \/ InCheckSize
  \/ get_incoming_message
  \/ InCheckPrecedence
  \/ InCheckFrom
  \/ InBuildTask
  \/ InEnqueue

SpecIn == InitIn /\ [][NextIn]_vars

\* The calls of a handler that ran all four checks, in order.
CheckOrder ==
  << Call("check", "address"), Call("check", "size"),
     Call("get_incoming_message", ""), Call("check", "precedence"),
     Call("check", "from") >>

IsPrefix(a, b) == Len(a) <= Len(b) /\ a = SubSeq(b, 1, Len(a))

\* The outcome the first failing check gives, "" when every check passes.
FirstFailure(settings, request) ==
  IF request.addr # settings.INBOUND_EMAIL_ADDR THEN "Wrong address"
  ELSE IF request.content_length > 20971520 THEN "Too big"
  ELSE IF request.data.precedence \in
            {Bulk, Junk, <<"B", "u", "l", "k">>, <<"J", "U", "N", "K">>}
       THEN "Wrong precedence"
  ELSE IF request.data.x_original_from = <<>> /\ request.data.from = <<>>
       THEN "Missing From"
  ELSE ""

\* C4: the checks run in the order destination address, size, precedence,
\* originating address; the first failing one alone decides the outcome, the
\* handler returns normally with its message and enqueues no task.
C4_ValidationChain ==
  /\ IsPrefix(SubSeq(trace, 1, IF Len(trace) > 5 THEN 5 ELSE Len(trace)),
              CheckOrder)
  /\ FirstFailure(cfg, req) # "" =>
       /\ queue = <<>> /\ ~Called("enqueue_task")
       /\ pc # "raised"
       /\ pc = "done" => resp = Return(FirstFailure(cfg, req))
       /\ pc = "done" =>
            trace[Len(trace)].arg =
              (CASE resp.message = "Wrong address" -> "address"
                 [] resp.message = "Too big" -> "size"
                 [] resp.message = "Wrong precedence" -> "precedence"
                 [] resp.message = "Missing From" -> "from")
  /\ (pc = "done" /\ FirstFailure(cfg, req) = "") => resp = Return("Done")

C4_Witness ==
  /\ pc = "done" /\ resp = Return("Wrong precedence")
  /\ req.data.precedence = <<"J", "U", "N", "K">>
  /\ req.data.x_original_from = <<>> /\ req.data.from = <<>>
  /\ queue = <<>>

\* C5: a message sent to the inbound address whose size exceeds 20 MiB gets
\* "Too big" and the raw message is never read or parsed.
C5_TooBig ==
  (req.addr = cfg.INBOUND_EMAIL_ADDR /\ req.content_length > 20971520) =>
    /\ ~Called("get_incoming_message")
    /\ loc = Nothing
    /\ pc \in {"start", "size", "done"}
    /\ pc = "done" => resp = Return("Too big")

C5_Witness ==
  /\ pc = "done" /\ resp = Return("Too big")
  /\ req.content_length = 20971521 /\ trace[Len(trace)] = Call("check", "size")

\* C6: "Done" is returned only after exactly one task with to_addr, from_addr,
\* subject, in_reply_to and body has been enqueued at /tasks/detect-intent;
\* when the enqueue fails the failure reaches the caller, nothing is enqueued
\* and "Done" is not returned.
C6_EnqueueThenDone ==
  /\ Len(queue) <= 1
  /\ Len(queue) = 1 <=> (pc = "done" /\ resp = Return("Done"))
  /\ (pc = "done" /\ resp = Return("Done")) =>
       /\ queue[1].path = "/tasks/detect-intent"
       /\ queue[1].task =
            [to_addr |-> <<"i", "@", "x">>,
             from_addr |-> IF req.data.x_original_from # <<>>
                           THEN req.data.x_original_from[1].addr
                           ELSE req.data.from[1].addr,
             subject |-> req.data.subject,
             in_reply_to |-> req.data.in_reply_to,
             body |-> IF \E i \in 1..Len(req.data.parts) :
                           req.data.parts[i].ctype = "text/plain"
                      THEN (CHOOSE b \in {<<"p">>, <<"q">>} :
                              \E i \in 1..Len(req.data.parts) :
                                 /\ req.data.parts[i].payload = b
                                 /\ \A j \in 1..(i - 1) :
                                      req.data.parts[j].ctype # "text/plain")
                      ELSE <<>>]
  /\ (Called("enqueue_task") /\ queue = <<>>) =>
       /\ pc = "raised" /\ resp.kind = "raise"

C6_Witness ==
  /\ pc = "done" /\ resp = Return("Done") /\ Len(queue) = 1
  /\ req.addr = InboundQuoted
  /\ queue[1].task.to_addr = InboundPlain
  /\ queue[1].task.body = <<"p">>
  /\ req.data.parts[1].ctype = "text/html"

-----------------------------------------------------------------------------
(* StarsAPI.do_post *)

\* A JSON featureId: its Python type and, for numbers, its value.
FeatureIdValues ==
  {[type |-> "int", n |-> n] : n \in 0..(NumFeatures + 1)}
    \cup {[type |-> "str", n |-> 1], [type |-> "bool", n |-> 1],
          [type |-> "NoneType", n |-> 0]}

\* isinstance(feature_id, int), which a bool satisfies.
IsInt_isinstance(feature_id) == feature_id.type \in {"int", "bool"}

\* line 44: type(feature_id) != int
IsInt(feature_id) == feature_id.type = "int"

\* models.Feature.get_feature: the features 1..NumFeatures exist.
get_feature(feature_id) == feature_id.n \in 1..NumFeatures

\* notifier.FeatureStar.set_star
set_star(records, email, feature_id, starred) ==
  IF starred THEN records \cup {<<email, feature_id>>}
  ELSE records \ {<<email, feature_id>>}

NoUser == "None"
StarUsers == {"u1", "u2"}

\* json_body.get('starred', True)
Starred(request) == IF request.starred = "absent" THEN TRUE
                    ELSE request.starred = "true"

StarRequests ==
  [featureId : FeatureIdValues, starred : {"absent", "true", "false"},
   user : StarUsers \cup {NoUser}]

InitStars ==
  /\ cfg = Settings(FALSE, FALSE, TplUnset, TRUE, InboundPlain)
  /\ req \in StarRequests
  /\ pc = "start"
  /\ loc = [stars_before |-> {}]
  /\ resp = NoResp
  /\ trace = <<>>
  /\ outbox = <<>>
  /\ queue = <<>>
  /\ stars = {}
  /\ bpc = Nothing
  /\ bloc = Nothing
  /\ prefs = Nothing
  /\ putLog = {}

\* lines 40-46
StarsCheckId ==
  /\ pc = "start"
  /\ trace' = Append(trace, Call("check", "type"))
  /\ IF ~IsInt(req.featureId)
     THEN pc' = "aborted" /\ resp' = Abort(400, "", "")
     ELSE pc' = "feature" /\ resp' = resp
  /\ UNCHANGED <<cfg, req, loc, outbox, queue, stars, bpc, bloc, prefs, putLog>>

\* lines 48-51
StarsCheckFeature ==
  /\ pc = "feature"
  /\ trace' = Append(trace, Call("get_feature", ""))
  /\ IF ~get_feature(req.featureId)
     THEN pc' = "aborted" /\ resp' = Abort(404, "", "")
     ELSE pc' = "user" /\ resp' = resp
  /\ UNCHANGED <<cfg, req, loc, outbox, queue, stars, bpc, bloc, prefs, putLog>>

\* lines 53-56
StarsCheckUser ==
  /\ pc = "user"
  /\ trace' = Append(trace, Call("get_current_user", ""))
  /\ IF req.user = NoUser
     THEN pc' = "aborted" /\ resp' = Abort(400, "", "")
     ELSE pc' = "set" /\ resp' = resp
  /\ UNCHANGED <<cfg, req, loc, outbox, queue, stars, bpc, bloc, prefs, putLog>>

\* lines 58-59
StarsSetStar ==
  /\ pc = "set"
  /\ trace' = Append(trace, Call("set_star", ""))
  /\ stars' = set_star(stars, req.user, req.featureId.n, Starred(req))
  /\ pc' = "done"
  /\ resp' = Return("Done")
  /\ UNCHANGED <<cfg, req, loc, outbox, queue, bpc, bloc, prefs, putLog>>

\* The next POST arrives once the previous one has been answered.
StarsNextRequest ==
  /\ pc \in {"done", "aborted"}
  /\ req' \in StarRequests
  /\ pc' = "start"
  /\ loc' = [stars_before |-> stars]
  /\ resp' = NoResp
  /\ trace' = <<>>
  /\ UNCHANGED <<cfg, outbox, queue, stars, bpc, bloc, prefs, putLog>>

NextStars ==
  \/ StarsCheckId
  \/ StarsCheckFeature
  \/ StarsCheckUser
  \/ StarsSetStar
  \/ StarsNextRequest

SpecStars == InitStars /\ [][NextStars]_vars

StarsOrder ==
  << Call("check", "type"), Call("get_feature", ""),
     Call("get_current_user", ""), Call("set_star", "") >>

\* C8: a star POST is checked in the order featureId is an integer (400),
\* the feature exists (404), a user is signed in (400); set_star is called and
\* "Done" returned only when all three pass, and a request ending in 400 or
\* 404 changes no star record.
C8_StarChecks ==
  /\ IsPrefix(trace, StarsOrder)
  /\ pc \in {"done", "aborted"} =>
       resp = (IF req.featureId.type # "int" THEN Abort(400, "", "")
               ELSE IF req.featureId.n \notin 1..NumFeatures
                    THEN Abort(404, "", "")
               ELSE IF req.user \notin StarUsers THEN Abort(400, "", "")
               ELSE Return("Done"))
  /\ Called("set_star") <=> (pc = "done" /\ resp = Return("Done"))
  /\ ~Called("set_star") => stars = loc.stars_before
  /\ resp.kind = "abort" =>
       /\ resp.status \in {400, 404}
       /\ stars = loc.stars_before

C8_Witness ==
  /\ pc = "aborted" /\ resp.status = 400
  /\ req.featureId = [type |-> "int", n |-> 1] /\ req.user = NoUser
  /\ trace[Len(trace)] = Call("get_current_user", "")
  /\ stars = {<<"u1", 1>>} /\ loc.stars_before = stars

-----------------------------------------------------------------------------
(* handle_bounce / receive, run by concurrent requests *)

Procs == 1..NumProcs

BounceAddrs == {<<"u", "@", "x">>, <<"v", "@", "x">>}

NoPref == [email |-> <<>>, bounced |-> FALSE]

\* UserPref.get_prefs_for_emails: the stored record of each address, or a
\* new unsaved record for an address that has none.
get_prefs_for_emails(store, email) ==
  IF store[email].exists
  THEN <<[email |-> email, bounced |-> store[email].bounced]>>
  ELSE <<[email |-> email, bounced |-> FALSE]>>

\* The record left as it was looked up.
MarkBounced_skipped(user_pref) == user_pref

\* line 150: user_pref.bounced = True
MarkBounced(user_pref) == [user_pref EXCEPT !.bounced = TRUE]

\* The store without the write.
Put_skipped(store, user_pref) == store

\* line 151: user_pref.put()
Put(store, user_pref) ==
  [store EXCEPT ![user_pref.email] =
     [exists |-> TRUE, bounced |-> user_pref.bounced]]

InitBounce ==
  /\ cfg \in {Settings(FALSE, FALSE, TplUnset, e, InboundPlain) : e \in BOOLEAN}
  /\ req = Nothing
  /\ pc = "serving"
  /\ loc = Nothing
  /\ resp = NoResp
  /\ trace = <<>>
  /\ outbox = <<>>
  /\ queue = <<>>
  /\ stars = {}
  /\ bpc = [p \in Procs |-> "idle"]
  /\ bloc = [p \in Procs |-> [email |-> <<>>, user_pref |-> NoPref,
                              found |-> FALSE, failed |-> ""]]
  /\ prefs \in [BounceAddrs -> {[exists |-> FALSE, bounced |-> FALSE],
                                [exists |-> TRUE, bounced |-> FALSE],
                                [exists |-> TRUE, bounced |-> TRUE]}]
  /\ putLog = {}

\* lines 137-146: a bounce notification reaches a free request handler.
BounceArrives(p) ==
  /\ bpc[p] \in {"idle", "done", "raised"}
  /\ Len(trace) < MaxBounces
  /\ \E a \in BounceAddrs :
       /\ bloc' = [bloc EXCEPT ![p] = [email |-> a, user_pref |-> NoPref,
                                       found |-> FALSE, failed |-> ""]]
       /\ trace' = Append(trace, Call("receive", ""))
  /\ bpc' = [bpc EXCEPT ![p] = "get"]
  /\ UNCHANGED <<cfg, pc, req, loc, resp, outbox, queue, stars, prefs, putLog>>

\* lines 148-149; pref_list[0] raises when no record is resolved.
BounceGetPrefs(p) ==
  /\ bpc[p] = "get"
  /\ \E resolved \in BOOLEAN :
       IF resolved
       THEN /\ bloc' = [bloc EXCEPT
                 ![p].user_pref = get_prefs_for_emails(prefs, bloc[p].email)[1],
                 ![p].found = prefs[bloc[p].email].exists]
            /\ bpc' = [bpc EXCEPT ![p] = "put"]
       ELSE /\ bloc' = [bloc EXCEPT ![p].failed = "lookup"]
            /\ bpc' = [bpc EXCEPT ![p] = "raised"]
  /\ UNCHANGED <<cfg, pc, req, loc, resp, trace, outbox, queue, stars,
                 prefs, putLog>>

\* lines 150-151
BouncePut(p) ==
  /\ bpc[p] = "put"
  /\ bloc' = [bloc EXCEPT ![p].user_pref = MarkBounced(bloc[p].user_pref)]
  /\ prefs' = Put(prefs, MarkBounced(bloc[p].user_pref))
  /\ putLog' = putLog \cup {MarkBounced(bloc[p].user_pref)}
  /\ bpc' = [bpc EXCEPT ![p] = "escalate"]
  /\ UNCHANGED <<cfg, pc, req, loc, resp, trace, outbox, queue, stars>>

\* lines 153-167: composing, validating or sending the escalation may raise.
BounceEscalate(p) ==
  /\ bpc[p] = "escalate"
  /\ \E failure \in {"", "compose", "check_initialized", "send"} :
       /\ failure = "send" => cfg.SEND_EMAIL
       /\ bloc' = [bloc EXCEPT ![p].failed = failure]
       /\ bpc' = [bpc EXCEPT ![p] = IF failure = "" THEN "done" ELSE "raised"]
       /\ outbox' = IF failure = "" /\ cfg.SEND_EMAIL
                    THEN Append(outbox, [to |-> "BOUNCE_ESCALATION_ADDR",
                                         bounced |-> bloc[p].email])
                    ELSE outbox
  /\ UNCHANGED <<cfg, pc, req, loc, resp, trace, queue, stars, prefs, putLog>>

NextBounce ==
  \/ \E p \in Procs : BounceArrives(p)
  \/ \E p \in Procs : BounceGetPrefs(p)
  \/ \E p \in Procs : BouncePut(p)
  \/ \E p \in Procs : BounceEscalate(p)

SpecBounce == InitBounce /\ [][NextBounce]_vars

\* C7: under every interleaving of bounce ingestions no UserPref record is
\* written with bounced = false; once an ingestion for an address has
\* persisted, the record of that address has bounced = true and keeps it, and
\* an ingestion that got past the write (a repeated one included) leaves the
\* record of its address bounced.
C7_BouncedOnly ==
  /\ [](/\ \A w \in putLog : w.bounced
        /\ \A w \in putLog :
             prefs[w.email] = [exists |-> TRUE, bounced |-> TRUE]
        /\ \A p \in Procs :
             bpc[p] \in {"escalate", "done"} =>
               prefs[bloc[p].email] = [exists |-> TRUE, bounced |-> TRUE])
  /\ [][\A a \in BounceAddrs :
          /\ prefs[a].exists => prefs'[a].exists
          /\ prefs[a].bounced => prefs'[a].bounced]_vars

C7_Witness ==
  \E p, q \in Procs :
    /\ p # q /\ bpc[p] = "done" /\ bpc[q] = "done"
    /\ bloc[p].email = bloc[q].email
    /\ ~bloc[p].found /\ bloc[q].found /\ bloc[q].user_pref.bounced
    /\ prefs[bloc[p].email] = [exists |-> TRUE, bounced |-> TRUE]
    /\ putLog = {[email |-> bloc[p].email, bounced |-> TRUE]}

\* C10: the record is persisted with bounced = true before the escalation
\* message is built, so an ingestion that is composing the escalation, or
\* failed composing, validating or sending it, has its record persisted with
\* bounced = true.
C10_PersistBeforeEscalation ==
  \A p \in Procs :
    (bpc[p] = "escalate"
       \/ (bpc[p] = "raised"
             /\ bloc[p].failed \in {"compose", "check_initialized", "send"})) =>
      /\ prefs[bloc[p].email] = [exists |-> TRUE, bounced |-> TRUE]
      /\ [email |-> bloc[p].email, bounced |-> TRUE] \in putLog

C10_Witness ==
  \E p \in Procs :
    /\ bpc[p] = "raised" /\ bloc[p].failed = "send"
    /\ ~bloc[p].found
    /\ prefs[bloc[p].email] = [exists |-> TRUE, bounced |-> TRUE]
    /\ outbox = <<>>

=============================================================================
